---- MODULE Spec2Model ----
(***************************************************************************)
(* PourbaixDiagram (pymatgen/analysis/pourbaix/maker.py): construction of  *)
(* a Pourbaix diagram as a state machine.  One construction walks through  *)
(* the methods of the class in program order; pc is the position.          *)
(*                                                                         *)
(* Conventions of the model:                                               *)
(*   - entry objects live in `heap`; an object's identity is its index.    *)
(*     Raw entries are 1..Len(entries); MultiEntry objects are appended.   *)
(*   - list indices are 1-based (Python's 0..n-1 is 1..n here).            *)
(*   - energies are fixed-point integers in units of 1e-4 eV, so that      *)
(*     MU_H2O = -2.4583 is exact.                                          *)
(*   - a real x/y is kept as a numerator/denominator pair, and sign and    *)
(*     zero tests are done on the exact integers.                          *)
(***************************************************************************)
EXTENDS Integers, Sequences, FiniteSets

\* Largest number of entries handed to the constructor.
MaxEntries == 4

\* MU_H2O = -2.4583 eV, in units of 1e-4 eV.
MU_H2O == -24583

\* 1 / 1e-8: the vertical-facet tolerance is |det| > 1e-8.
DetTolInv == 100000000

\* The elements of a multi-element diagram (the keys of comp_dict).
Elts == <<"A", "B">>

VARIABLES
    pc,                     \* position in __init__ / _make_pourbaixdiagram
    err,                    \* the exception construction ended with, or "none"
    heap,                   \* entry objects (PourbaixEntry / MultiEntry) by identity
    entries,                \* the `entries` argument: a list of object ids
    comp_dict,              \* the `comp_dict` argument: weights [n, d] per element
    solid_entries,          \* self._solid_entries
    ion_entries,            \* self._ion_entries
    unprocessed_entries,    \* self._unprocessed_entries
    multielement,           \* self._multielement
    elt_comp,               \* self._elt_comp: fraction per element, [num, den]
    entry_components_dict,  \* self._entry_components_dict: MultiEntry id -> combination
    all_entries,            \* self._all_entries
    qhull_entries,          \* self._qhull_entries
    qhull_data,             \* self._qhull_data
    facets,                 \* self._facets
    vert_facets_removed,    \* local of _make_pourbaixdiagram
    vertices,               \* local `vertices` of _make_pourbaixdiagram
    stable_entries,         \* self._stable_entries
    stable_vertices         \* self._vertices

vars == <<pc, err, heap, entries, comp_dict, solid_entries, ion_entries,
          unprocessed_entries, multielement, elt_comp, entry_components_dict,
          all_entries, qhull_entries, qhull_data, facets, vert_facets_removed,
          vertices, stable_entries, stable_vertices>>

----------------------------------------------------------------------------
(* Arithmetic helpers *)

Abs(x) == IF x < 0 THEN -x ELSE x

RECURSIVE GCD(_, _)
GCD(a, b) == IF b = 0 THEN a ELSE GCD(b, a % b)

RECURSIVE SumSeq(_)
SumSeq(s) == IF s = <<>> THEN 0 ELSE s[1] + SumSeq(Tail(s))

Range(s) == {s[i] : i \in DOMAIN s}

----------------------------------------------------------------------------
(* Entry objects.  The entry classes are consumed through their attribute   *)
(* contract: phase_type, composition, npH, nPhi, g0, normalization_factor,  *)
(* nH2O, conc_term, correction, scale().  nscaled and ncorrected count the  *)
(* calls of scale() and the additions to correction an object has seen.     *)

MkEntry(phase, comp, npH, nPhi, energy, nf, nH2O, conc) ==
    [phase_type |-> phase, composition |-> comp, npH |-> npH, nPhi |-> nPhi,
     energy |-> energy, correction |-> 0, normalization_factor |-> nf,
     nH2O |-> nH2O, conc_term |-> conc, nscaled |-> 0, ncorrected |-> 0,
     entrylist |-> <<>>, weights |-> <<>>]

\* entry.g0: the free energy, uncorrected energy plus correction.
g0(e) == e.energy + e.correction

\* entry.scale(factor): every coordinate field is multiplied by factor.
Scale(e, factor) ==
    [e EXCEPT !.npH = @ * factor, !.nPhi = @ * factor,
              !.energy = @ * factor, !.correction = @ * factor,
              !.nscaled = @ + 1]

\* composition.get_reduced_composition_and_factor()[1]
ReducedFactor(comp) ==
    LET g == GCD(comp[1], comp[2]) IN IF g = 0 THEN 1 ELSE g

----------------------------------------------------------------------------
(* The inputs of a construction.  Three families of entry pools: one that   *)
(* varies the hull geometry, one that varies phase type and the projector's *)
(* inputs, one that varies the compositions the synthesizer solves for.     *)

\* (npH, nPhi, energy) of the geometry pool: corners of the unit cube.
GeomPoints ==
    {<<0, 0, 0>>, <<1, 0, 0>>, <<0, 1, 0>>, <<0, 0, 1>>, <<0, 1, 1>>, <<1, 1, 1>>}

GeomPool ==
    {MkEntry("Solid", <<1, 0>>, p[1], p[2], p[3], 1, 0, 0) : p \in GeomPoints}

PhasePool ==
    {MkEntry(p, <<1, 0>>, 0, 0, 0, 1, 0, 0) : p \in {"Solid", "Ion", "Gas"}}
    \cup {MkEntry(p, <<0, 1>>, 1, 1, 1, 2, 1, 3) : p \in {"Solid", "Ion", "Gas"}}

MultiPool ==
    {MkEntry("Solid", <<1, 0>>, 0, 0, 0, 1, 0, 0),
     MkEntry("Solid", <<0, 2>>, 1, 0, 1, 1, 0, 2),
     MkEntry("Ion",   <<0, 1>>, 0, 1, 2, 1, 0, 0),
     MkEntry("Ion",   <<2, 0>>, 1, 1, 0, 1, 0, 1),
     MkEntry("Solid", <<1, 1>>, 0, 0, 3, 1, 0, 0)}

SeqsUpTo(S, n) == UNION {[1..k -> S] : k \in 0..n}

\* comp_dict: <<>> (the default {}) or one weight per element, as a real n/d.
NoCompDict == <<>>
HalfHalf   == <<[n |-> 1, d |-> 2], [n |-> 1, d |-> 2]>>
ThirdTwo   == <<[n |-> 1, d |-> 3], [n |-> 2, d |-> 3]>>

Inputs ==
    (SeqsUpTo(GeomPool, MaxEntries) \X {NoCompDict})
    \cup (SeqsUpTo(PhasePool, MaxEntries) \X {NoCompDict, HalfHalf})
    \cup (SeqsUpTo(MultiPool, MaxEntries) \X {HalfHalf, ThirdTwo})

Init ==
    /\ \E inp \in Inputs :
         /\ heap = inp[1]
         /\ entries = [i \in 1..Len(inp[1]) |-> i]
         /\ comp_dict = inp[2]
    /\ pc = "init"
    /\ err = "none"
    /\ solid_entries = <<>>
    /\ ion_entries = <<>>
    /\ unprocessed_entries = <<>>
    /\ multielement = FALSE
    /\ elt_comp = <<>>
    /\ entry_components_dict = <<>>
    /\ all_entries = <<>>
    /\ qhull_entries = <<>>
    /\ qhull_data = <<>>
    /\ facets = <<>>
    /\ vert_facets_removed = <<>>
    /\ vertices = {}
    /\ stable_entries = {}
    /\ stable_vertices = {}

Raise(e) == pc' = "error" /\ err' = e

----------------------------------------------------------------------------
(* __init__, lines 46-56: the entry classifier.                             *)

\* A classifier that passes over an entry of unknown phase type.
RECURSIVE ClassifyLoopSkipping(_, _, _)
ClassifyLoopSkipping(i, solids, ions) ==
    IF i > Len(entries) THEN [ok |-> TRUE, solids |-> solids, ions |-> ions]
    ELSE IF heap[entries[i]].phase_type = "Solid"
         THEN ClassifyLoopSkipping(i + 1, Append(solids, entries[i]), ions)
    ELSE IF heap[entries[i]].phase_type = "Ion"
         THEN ClassifyLoopSkipping(i + 1, solids, Append(ions, entries[i]))
    ELSE ClassifyLoopSkipping(i + 1, solids, ions)

RECURSIVE ClassifyLoop(_, _, _)
ClassifyLoop(i, solids, ions) ==
    IF i > Len(entries) THEN [ok |-> TRUE, solids |-> solids, ions |-> ions]
    ELSE IF heap[entries[i]].phase_type = "Solid"
         THEN ClassifyLoop(i + 1, Append(solids, entries[i]), ions)
    ELSE IF heap[entries[i]].phase_type = "Ion"
         THEN ClassifyLoop(i + 1, solids, Append(ions, entries[i]))
    ELSE [ok |-> FALSE, solids |-> solids, ions |-> ions]

Classify ==
    /\ pc = "init"
    /\ LET r == ClassifyLoop(1, <<>>, <<>>) IN
         /\ solid_entries' = r.solids
         /\ ion_entries' = r.ions
         /\ IF r.ok
            THEN /\ unprocessed_entries' = r.solids \o r.ions
                 /\ pc' = "classified"
                 /\ err' = err
            ELSE /\ unprocessed_entries' = unprocessed_entries
                 /\ Raise("ConfigurationError")
    /\ UNCHANGED <<heap, entries, comp_dict, multielement, elt_comp,
                   entry_components_dict, all_entries, qhull_entries, qhull_data,
                   facets, vert_facets_removed, vertices, stable_entries,
                   stable_vertices>>

----------------------------------------------------------------------------
(* __init__, lines 57-82: the composition solver (multi-element setup) or   *)
(* the element list of the first entry (single-element mode).               *)

\* A real n/d with d > 0, in lowest terms.
Rat(n, d) ==
    LET g == GCD(Abs(n), Abs(d))
        s == IF d < 0 THEN -1 ELSE 1
    IN  [n |-> (s * n) \div g, d |-> (s * d) \div g]

\* comp_obj[Element(elt)] for the formula of key i and the element of key j:
\* the keys of comp_dict are element symbols, each holding one atom of itself.
FormulaAmount(i, j) == IF i = j THEN 1 ELSE 0

\* Lines 61-77.  w = n/d per key; A is transposed, divided by
\* dot(row sums, w), and A x = w is solved (Cramer's rule, exact).
\* The result is x as numerators over one common denominator.
SolveEltComp(cd) ==
    LET Q   == cd[1].d * cd[2].d
        W   == <<cd[1].n * cd[2].d, cd[2].n * cd[1].d>>              \* w * Q
        AT  == [i \in 1..2 |-> [j \in 1..2 |-> FormulaAmount(j, i)]]  \* A.T
        S   == SumSeq([i \in 1..2 |-> (AT[i][1] + AT[i][2]) * W[i]]) \* dot(...) * Q
        det == AT[1][1] * AT[2][2] - AT[1][2] * AT[2][1]
        r   == <<S * W[1], S * W[2]>>                                  \* s * w * Q^2
        x1  == r[1] * AT[2][2] - AT[1][2] * r[2]
        x2  == AT[1][1] * r[2] - AT[2][1] * r[1]
        den == det * Q * Q
        g   == GCD(GCD(Abs(x1), Abs(x2)), Abs(den))
        sg  == IF den < 0 THEN -1 ELSE 1
    IN  IF det = 0 THEN [ok |-> FALSE, num |-> <<>>, den |-> 0]
        ELSE [ok |-> TRUE,
              num |-> <<(sg * x1) \div g, (sg * x2) \div g>>,
              den |-> (sg * den) \div g]

SolveComposition ==
    /\ pc = "classified"
    /\ IF comp_dict # <<>>
       THEN LET x == SolveEltComp(comp_dict) IN
              /\ multielement' = TRUE
              /\ IF x.ok
                 THEN /\ elt_comp' = [num |-> x.num, den |-> x.den]
                      /\ pc' = "create"
                      /\ err' = err
                 ELSE /\ elt_comp' = elt_comp
                      /\ Raise("SingularSystemError")
       ELSE /\ multielement' = FALSE
            /\ elt_comp' = elt_comp
            /\ IF Len(entries) = 0
               THEN Raise("IndexError")            \* entries[0], line 81
               ELSE pc' = "create" /\ err' = err
    /\ UNCHANGED <<heap, entries, comp_dict, solid_entries, ion_entries,
                   unprocessed_entries, entry_components_dict, all_entries,
                   qhull_entries, qhull_data, facets, vert_facets_removed,
                   vertices, stable_entries, stable_vertices>>

----------------------------------------------------------------------------
(* _process_multielement_entries, lines 114-167: the multi-entry            *)
(* synthesizer.                                                             *)

PrependAll(x, ss) == [i \in 1..Len(ss) |-> <<x>> \o ss[i]]

\* itertools.combinations(range(n), k): the k-subsets of lo..n, lexicographic.
RECURSIVE CombFrom(_, _, _)
CombFrom(lo, n, k) ==
    IF k = 0 THEN << <<>> >>
    ELSE IF lo > n THEN <<>>
    ELSE PrependAll(lo, CombFrom(lo + 1, n, k - 1)) \o CombFrom(lo + 1, n, k)

Combinations(n, k) == CombFrom(1, n, k)

\* Lines 131-136 / 141-147: the entry's amounts over its reduction factor.
RedFac(e) == IF e.phase_type = "Solid" THEN ReducedFactor(e.composition) ELSE 1

ReducedAmount(e, i) == e.composition[i] \div RedFac(e)

SumNel(e) == SumSeq([i \in 1..Len(Elts) |-> ReducedAmount(e, i)])

\* Lines 137-138: b[0] times the denominator of the fractions.
RhsB(e0, x) == x.den * ReducedAmount(e0, 2) - x.num[2] * SumNel(e0)

\* Line 150: A[0][0] times the denominator of the fractions.
CoefA(e, x) == x.num[2] * SumNel(e) - x.den * ReducedAmount(e, 2)

\* Lines 151-159: the combination is kept when the system is non-singular
\* and every solved weight is > 0.
Feasible(combo, ents, h, x) ==
    LET b == RhsB(h[ents[combo[1]]], x)
        a == CoefA(h[ents[combo[2]]], x)
    IN  a # 0 /\ a * b > 0

\* Lines 152, 160-161: the solved weights with 1.0 put in front.
Weights(combo, ents, h, x) ==
    <<Rat(1, 1), Rat(RhsB(h[ents[combo[1]]], x), CoefA(h[ents[combo[2]]], x))>>

\* MultiEntry(entry_list, weights): every attribute is the weighted
\* combination of the constituents' attributes.  The attributes are held as
\* integers over the common denominator of the weights, which is the unit
\* the MultiEntry is normalised by.
MultiEntry(multi_entries, weights, h) ==
    LET D    == weights[1].d * weights[2].d
        W    == [i \in 1..2 |-> weights[i].n * (D \div weights[i].d)]
        F(f) == W[1] * f[1] + W[2] * f[2]
        col(name) == [i \in 1..2 |-> h[multi_entries[i]][name]]
    IN  [phase_type |-> "Multi",
         composition |-> [k \in 1..Len(Elts) |->
                             F([i \in 1..2 |-> h[multi_entries[i]].composition[k]])],
         npH |-> F(col("npH")), nPhi |-> F(col("nPhi")),
         energy |-> F(col("energy")), correction |-> F(col("correction")),
         normalization_factor |-> 1,
         nH2O |-> F(col("nH2O")), conc_term |-> F(col("conc_term")),
         nscaled |-> 0, ncorrected |-> 0,
         entrylist |-> multi_entries, weights |-> weights]

\* self._entry_components_dict[key] = value
DictSet(d, key, value) ==
    [k \in (DOMAIN d) \cup {key} |-> IF k = key THEN value ELSE d[k]]

\* One iteration of the loop of lines 126-164.  super_entry = 0 stands for
\* the name not being bound yet.
SynthIter(st, entry_list, ents, x) ==
    IF ~Feasible(entry_list, ents, st.heap, x)
    THEN [st EXCEPT !.entry_list = entry_list]
    ELSE LET multi_entries == [j \in 1..Len(entry_list) |-> ents[entry_list[j]]]
             weights == Weights(entry_list, ents, st.heap, x)
             super_entry == Len(st.heap) + 1
         IN  [heap |-> Append(st.heap, MultiEntry(multi_entries, weights, st.heap)),
              dict |-> DictSet(st.dict, super_entry, entry_list),
              processed |-> Append(st.processed, super_entry),
              super_entry |-> super_entry,
              entry_list |-> entry_list]

RECURSIVE SynthLoop(_, _, _, _, _)
SynthLoop(st, list_of_entries, i, ents, x) ==
    IF i > Len(list_of_entries) THEN st
    ELSE SynthLoop(SynthIter(st, list_of_entries[i], ents, x),
                   list_of_entries, i + 1, ents, x)

\* Lines 165-166: the statements after the loop.
SynthTail(st) ==
    [st EXCEPT !.dict = DictSet(st.dict, st.super_entry, st.entry_list),
               !.processed = Append(st.processed, st.super_entry)]

ProcessMultielementEntries ==
    /\ pc = "create"
    /\ multielement
    /\ LET N == Len(elt_comp.num)
           list_of_entries == Combinations(Len(unprocessed_entries), N)
           st0 == [heap |-> heap, dict |-> <<>>, processed |-> <<>>,
                   super_entry |-> 0, entry_list |-> <<>>]
           st == SynthLoop(st0, list_of_entries, 1, unprocessed_entries, elt_comp)
       IN  /\ heap' = st.heap
           /\ IF st.super_entry = 0
              THEN /\ entry_components_dict' = st.dict
                   /\ all_entries' = all_entries
                   /\ Raise("UnboundLocalError")   \* line 165
              ELSE /\ entry_components_dict' = SynthTail(st).dict
                   /\ all_entries' = SynthTail(st).processed
                   /\ pc' = "project"
                   /\ err' = err
    /\ UNCHANGED <<entries, comp_dict, solid_entries, ion_entries,
                   unprocessed_entries, multielement, elt_comp, qhull_entries,
                   qhull_data, facets, vert_facets_removed, vertices,
                   stable_entries, stable_vertices>>

\* _create_conv_hull_data, lines 90-91: single-element mode.
UseUnprocessedEntries ==
    /\ pc = "create"
    /\ ~multielement
    /\ all_entries' = unprocessed_entries
    /\ pc' = "project"
    /\ UNCHANGED <<err, heap, entries, comp_dict, solid_entries, ion_entries,
                   unprocessed_entries, multielement, elt_comp,
                   entry_components_dict, qhull_entries, qhull_data, facets,
                   vert_facets_removed, vertices, stable_entries, stable_vertices>>

----------------------------------------------------------------------------
(* _create_conv_hull_data, lines 92-98: the hull-space projector.           *)

\* Lines 94-95 for one entry object.
ProjectEntry(e) ==
    LET s == Scale(e, e.normalization_factor)
    IN  [s EXCEPT !.correction = @ + (-MU_H2O * s.nH2O + s.conc_term),
                  !.ncorrected = @ + 1]

RECURSIVE ProjectLoop(_, _, _)
ProjectLoop(h, ids, i) ==
    IF i > Len(ids) THEN h
    ELSE ProjectLoop([h EXCEPT ![ids[i]] = ProjectEntry(h[ids[i]])], ids, i + 1)

Project ==
    /\ pc = "project"
    /\ heap' = ProjectLoop(heap, all_entries, 1)
    /\ qhull_entries' = all_entries
    /\ pc' = "process"
    /\ UNCHANGED <<err, entries, comp_dict, solid_entries, ion_entries,
                   unprocessed_entries, multielement, elt_comp,
                   entry_components_dict, all_entries, qhull_data, facets,
                   vert_facets_removed, vertices, stable_entries, stable_vertices>>

----------------------------------------------------------------------------
(* _process_conv_hull_data, lines 100-112.                                  *)

\* Line 107.
Row(e) == <<e.npH, e.nPhi, g0(e)>>

\* list.sort(key=...) is stable: x goes behind every element whose key is
\* not greater than its own.
\* An unstable insertion: x goes in front of the elements with its own key.
RECURSIVE InsertByKeyUnstable(_, _)
InsertByKeyUnstable(sorted, x) ==
    IF sorted = <<>> THEN <<x>>
    ELSE IF x[1][3] <= sorted[1][1][3] THEN <<x>> \o sorted
    ELSE <<sorted[1]>> \o InsertByKeyUnstable(Tail(sorted), x)

RECURSIVE InsertByKey(_, _)
InsertByKey(sorted, x) ==
    IF sorted = <<>> THEN <<x>>
    ELSE IF x[1][3] < sorted[1][1][3] THEN <<x>> \o sorted
    ELSE <<sorted[1]>> \o InsertByKey(Tail(sorted), x)

RECURSIVE SortLoop(_, _, _)
SortLoop(sorted, temp, i) ==
    IF i > Len(temp) THEN sorted
    ELSE SortLoop(InsertByKey(sorted, temp[i]), temp, i + 1)

\* Lines 109-110: temp = zip(data, self._qhull_entries); temp.sort(...)
SortedPairs(data, ents) ==
    SortLoop(<<>>, [i \in 1..Len(data) |-> <<data[i], ents[i]>>], 1)

ProcessConvHullData ==
    /\ pc = "process"
    /\ LET data == [i \in 1..Len(qhull_entries) |-> Row(heap[qhull_entries[i]])]
           temp == SortedPairs(data, qhull_entries)
       IN  IF temp = <<>>
           THEN /\ Raise("ValueError")             \* zip(*[]), line 111
                /\ UNCHANGED <<qhull_data, qhull_entries>>
           ELSE /\ qhull_data' = [i \in 1..Len(temp) |-> temp[i][1]]
                /\ qhull_entries' = [i \in 1..Len(temp) |-> temp[i][2]]
                /\ pc' = "make"
                /\ err' = err
    /\ UNCHANGED <<heap, entries, comp_dict, solid_entries, ion_entries,
                   unprocessed_entries, multielement, elt_comp,
                   entry_components_dict, all_entries, facets,
                   vert_facets_removed, vertices, stable_entries, stable_vertices>>

----------------------------------------------------------------------------
(* _make_pourbaixdiagram, lines 173-242: the lower-envelope selector and    *)
(* the diagram assembler.                                                   *)

Sub(p, q) == <<p[1] - q[1], p[2] - q[2], p[3] - q[3]>>

\* np.cross
Cross(a, b) ==
    <<a[2] * b[3] - a[3] * b[2], a[3] * b[1] - a[1] * b[3], a[1] * b[2] - a[2] * b[1]>>

\* np.dot
Dot(a, b) == a[1] * b[1] + a[2] * b[2] + a[3] * b[3]

Neg(a) == <<-a[1], -a[2], -a[3]>>

\* np.linalg.det of a 3x3 matrix
Det3(m) ==
      m[1][1] * (m[2][2] * m[3][3] - m[2][3] * m[3][2])
    - m[1][2] * (m[2][1] * m[3][3] - m[2][3] * m[3][1])
    + m[1][3] * (m[2][1] * m[3][2] - m[2][2] * m[3][1])

\* ConvexHull(points).vertices: the simplices of the hull as index triples.
\* A triple is a facet when its points are not collinear and every point lies
\* on one closed side of its plane; it is listed with the orientation that
\* makes its normal point away from the hull.
HullSide(t, pts) ==
    LET nrm == Cross(Sub(pts[t[2]], pts[t[1]]), Sub(pts[t[3]], pts[t[1]]))
    IN  [nonzero |-> nrm # <<0, 0, 0>>,
         below |-> \A l \in 1..Len(pts) : Dot(nrm, Sub(pts[l], pts[t[1]])) <= 0,
         above |-> \A l \in 1..Len(pts) : Dot(nrm, Sub(pts[l], pts[t[1]])) >= 0]

IsHullFacet(t, pts) ==
    LET h == HullSide(t, pts) IN h.nonzero /\ (h.below \/ h.above)

OrientFacet(t, pts) ==
    IF HullSide(t, pts).below THEN t ELSE <<t[1], t[3], t[2]>>

ConvexHull(pts) ==
    LET cand == SelectSeq(Combinations(Len(pts), 3), LAMBDA t : IsHullFacet(t, pts))
    IN  [i \in 1..Len(cand) |-> OrientFacet(cand[i], pts)]

\* np.sort of one row
RECURSIVE InsertInt(_, _)
InsertInt(sorted, x) ==
    IF sorted = <<>> THEN <<x>>
    ELSE IF x < sorted[1] THEN <<x>> \o sorted
    ELSE <<sorted[1]>> \o InsertInt(Tail(sorted), x)

SortRow(f) == InsertInt(InsertInt(InsertInt(<<>>, f[1]), f[2]), f[3])

\* Lines 175-180.
CheckDimension ==
    /\ pc = "make"
    /\ LET dim == Len(qhull_data[1]) IN
         IF Len(qhull_data) < dim
         THEN /\ Raise("InsufficientDataError")
              /\ UNCHANGED <<facets, vertices>>
         ELSE IF Len(qhull_data) = dim
         THEN /\ facets' = << [i \in 1..dim |-> i] >>
              /\ vertices' = 1..dim
              /\ pc' = "assemble"
              /\ err' = err
         ELSE /\ pc' = "hull"
              /\ UNCHANGED <<err, facets, vertices>>
    /\ UNCHANGED <<heap, entries, comp_dict, solid_entries, ion_entries,
                   unprocessed_entries, multielement, elt_comp,
                   entry_components_dict, all_entries, qhull_entries, qhull_data,
                   vert_facets_removed, stable_entries, stable_vertices>>

\* Lines 183-184.
ComputeHull ==
    /\ pc = "hull"
    /\ LET facets_pyhull == ConvexHull(qhull_data) IN
         facets' = [i \in 1..Len(facets_pyhull) |-> SortRow(facets_pyhull[i])]
    /\ pc' = "vertical"
    /\ UNCHANGED <<err, heap, entries, comp_dict, solid_entries, ion_entries,
                   unprocessed_entries, multielement, elt_comp,
                   entry_components_dict, all_entries, qhull_entries, qhull_data,
                   vert_facets_removed, vertices, stable_entries, stable_vertices>>

\* Lines 190-195: the facet's points with the last column set to 1.
FacetMatrix(facet, data) ==
    [count \in 1..3 |-> <<data[facet[count]][1], data[facet[count]][2], 1>>]

\* Line 196: abs(det) > 1e-8.  The determinant is an integer here, and an
\* integer exceeds 1e-8 exactly when it exceeds the integer part of 1e-8.
NotVertical(facet, data) ==
    Abs(Det3(FacetMatrix(facet, data))) > 1 \div DetTolInv

\* Lines 187-200.
RemoveVerticalFacets ==
    /\ pc = "vertical"
    /\ vert_facets_removed' = SelectSeq(facets, LAMBDA f : NotVertical(f, qhull_data))
    /\ pc' = "uch"
    /\ UNCHANGED <<err, heap, entries, comp_dict, solid_entries, ion_entries,
                   unprocessed_entries, multielement, elt_comp,
                   entry_components_dict, all_entries, qhull_entries, qhull_data,
                   facets, vertices, stable_entries, stable_vertices>>

\* Lines 205-208.
FacetVertices(fs) == UNION {Range(fs[i]) : i \in 1..Len(fs)}

\* Lines 209-217: the points with the origin shifted to the centre c of the
\* vertices in vs.  c is the average over vs, so the shifted points are held
\* times Cardinality(vs), which leaves every sign as it is.
ShiftedData(data, vs) ==
    LET k == Cardinality(vs)
        total(c) == SumSeq([i \in 1..Len(data) |-> IF i \in vs THEN data[i][c] ELSE 0])
    IN  [i \in 1..Len(data) |->
           IF i \in vs
           THEN <<k * data[i][1] - total(1), k * data[i][2] - total(2),
                  k * data[i][3] - total(3)>>
           ELSE <<k * data[i][1], k * data[i][2], k * data[i][3]>>]

\* Lines 222-227: the facet's normal, turned away from the centre.
OutwardNormal(facet, nd) ==
    LET a == Sub(nd[facet[2]], nd[facet[1]])
        b == Sub(nd[facet[3]], nd[facet[1]])
        nrm == Cross(a, b)
        val == Dot(nrm, nd[facet[1]])
    IN  IF val < 0 THEN Neg(nrm) ELSE nrm

\* Line 228.
IsLower(facet, nd) == OutwardNormal(facet, nd)[3] <= 0

\* Lines 204-234.
RemoveUCHFacets ==
    /\ pc = "uch"
    /\ LET vs == FacetVertices(vert_facets_removed)
           new_qhull_data == ShiftedData(qhull_data, vs)
       IN  /\ vertices' = vs
           /\ facets' = SelectSeq(vert_facets_removed,
                                  LAMBDA f : IsLower(f, new_qhull_data))
    /\ pc' = "assemble"
    /\ UNCHANGED <<err, heap, entries, comp_dict, solid_entries, ion_entries,
                   unprocessed_entries, multielement, elt_comp,
                   entry_components_dict, all_entries, qhull_entries, qhull_data,
                   vert_facets_removed, stable_entries, stable_vertices>>

\* An assembler that walks the facets as they were before the upper-hull
\* facets were removed.
AssembledFacetsBeforeUCH == vert_facets_removed

\* Lines 237-240: the facets the assembler walks.
AssembledFacets == facets

RECURSIVE AssembleFacet(_, _, _)
AssembleFacet(acc, facet, j) ==
    IF j > Len(facet) THEN acc
    ELSE AssembleFacet([verts |-> acc.verts \cup {facet[j]},
                        ents |-> acc.ents \cup {qhull_entries[facet[j]]}],
                       facet, j + 1)

RECURSIVE AssembleLoop(_, _, _)
AssembleLoop(acc, fs, i) ==
    IF i > Len(fs) THEN acc
    ELSE AssembleLoop(AssembleFacet(acc, fs[i], 1), fs, i + 1)

\* Lines 236-242.
Assemble ==
    /\ pc = "assemble"
    /\ LET acc == AssembleLoop([verts |-> {}, ents |-> {}], AssembledFacets, 1) IN
         /\ stable_entries' = acc.ents
         /\ stable_vertices' = acc.verts
    /\ pc' = "done"
    /\ UNCHANGED <<err, heap, entries, comp_dict, solid_entries, ion_entries,
                   unprocessed_entries, multielement, elt_comp,
                   entry_components_dict, all_entries, qhull_entries, qhull_data,
                   facets, vert_facets_removed, vertices>>

Next ==
    \/ Classify
    \/ SolveComposition
    \/ ProcessMultielementEntries
    \/ UseUnprocessedEntries
    \/ Project
    \/ ProcessConvHullData
    \/ CheckDimension
    \/ ComputeHull
    \/ RemoveVerticalFacets
    \/ RemoveUCHFacets
    \/ Assemble

Spec == Init /\ [][Next]_vars

----------------------------------------------------------------------------
(* Properties *)

Done == pc = "done"

\* The positions behind the projector (line 97 has run).
Projected == pc \in {"process", "make", "hull", "vertical", "uch", "assemble", "done"}

\* The positions behind a synthesizer that returned.
Synthesized == multielement /\ (Projected \/ pc = "project")

ValidPhase(id) == heap[id].phase_type \in {"Solid", "Ion"}

HasInvalidPhase == \E i \in 1..Len(entries) : ~ValidPhase(entries[i])

\* The feasible N-combinations of the working entries, in enumeration order.
FeasibleCombos ==
    SelectSeq(Combinations(Len(unprocessed_entries), Len(Elts)),
              LAMBDA c : Feasible(c, unprocessed_entries, heap, elt_comp))

\* The entry objects a combination of indices stands for.
Constituents(c) == [j \in 1..Len(c) |-> unprocessed_entries[c[j]]]

\* The number of entries the projector is meant to be handed.
WorkingSetSize ==
    IF multielement THEN Len(FeasibleCombos) ELSE Len(unprocessed_entries)

NoDuplicates(s) == \A i, j \in 1..Len(s) : s[i] = s[j] => i = j

\* C1: after a successful construction every facet in `facets` is oriented
\* lower: its normal on the centroid-shifted points, turned away from the
\* centre, has a third component <= 0 -- the exact 3-point case included.
C1_FacetsOrientedLower ==
    Done => \A i \in 1..Len(facets) :
                OutwardNormal(facets[i], ShiftedData(qhull_data, vertices))[3] <= 0

\* C1 restricted to more than 3 hull points, where the selector runs.
C1_BeyondThreePoints ==
    (Done /\ Len(qhull_data) > 3) => \A i \in 1..Len(facets) :
                OutwardNormal(facets[i], ShiftedData(qhull_data, vertices))[3] <= 0

\* C2: after a successful construction no facet in `facets` is vertical: the
\* matrix of its vertices' (npH, nPhi, 1) has |det| > 1e-8 -- the exact
\* 3-point case included.
C2_NoVerticalFacet ==
    Done => \A i \in 1..Len(facets) :
                Abs(Det3(FacetMatrix(facets[i], qhull_data))) > 1 \div DetTolInv

\* C2 restricted to more than 3 hull points, where the selector runs.
C2_BeyondThreePoints ==
    (Done /\ Len(qhull_data) > 3) => \A i \in 1..Len(facets) :
                Abs(Det3(FacetMatrix(facets[i], qhull_data))) > 1 \div DetTolInv

\* C3: after a successful construction stable_entries is exactly the set of
\* qhull_entries[v] for v in a retained facet, `vertices` is exactly the set
\* of those v, and every such v is a valid index into qhull_data and
\* qhull_entries.
C3_StableSetsAreFacetVertices ==
    Done =>
      /\ stable_entries =
           {qhull_entries[facets[i][j]] : i \in 1..Len(facets), j \in 1..3}
      /\ stable_vertices = {facets[i][j] : i \in 1..Len(facets), j \in 1..3}
      /\ \A i \in 1..Len(facets) : \A j \in 1..3 :
           /\ facets[i][j] \in 1..Len(qhull_data)
           /\ facets[i][j] \in 1..Len(qhull_entries)

\* C3 witness: a finished diagram with retained facets where an upper-hull
\* facet was removed and one of its vertices occurs in no retained facet.
C3_Witness ==
    /\ Done
    /\ Len(facets) > 0
    /\ Len(vert_facets_removed) > Len(facets)
    /\ \E v \in vertices : v \notin stable_vertices
                           /\ qhull_entries[v] \notin stable_entries

\* The place of working-set position k in the stable ascending order of g0.
StableRank(k) ==
    LET key(m) == g0(heap[all_entries[m]])
    IN  1 + Cardinality({m \in 1..Len(all_entries) :
                           key(m) < key(k) \/ (key(m) = key(k) /\ m < k)})

\* C4: after a successful construction qhull_data and qhull_entries have the
\* same length and are index-aligned, qhull_data ascends in g0, and entries
\* of equal g0 keep their relative order from the working set.
C4_SortedAlignedStable ==
    Done =>
      /\ Len(qhull_data) = Len(qhull_entries)
      /\ Len(qhull_data) = Len(all_entries)
      /\ \A i \in 1..Len(qhull_data) :
           qhull_data[i] = <<heap[qhull_entries[i]].npH, heap[qhull_entries[i]].nPhi,
                             g0(heap[qhull_entries[i]])>>
      /\ \A i \in 1..Len(qhull_data) - 1 : qhull_data[i][3] <= qhull_data[i + 1][3]
      /\ \A k \in 1..Len(all_entries) : qhull_entries[StableRank(k)] = all_entries[k]

\* C4 witness: a finished diagram whose sort moved entries and which holds
\* two different entries of equal g0.
C4_Witness ==
    /\ Done
    /\ qhull_entries # all_entries
    /\ \E i, j \in 1..Len(qhull_data) :
         /\ i < j
         /\ qhull_data[i][3] = qhull_data[j][3]
         /\ qhull_entries[i] # qhull_entries[j]

\* C5: the synthesizer does not double-append: the list it returns holds
\* exactly one MultiEntry per feasible combination, in enumeration order, so
\* no object occurs twice and its length is the number of feasible
\* combinations.
C5_NoDoubleAppend ==
    Synthesized =>
      /\ Len(all_entries) = Len(FeasibleCombos)
      /\ NoDuplicates(all_entries)
      /\ \A k \in 1..Len(all_entries) :
           k <= Len(FeasibleCombos) =>
             heap[all_entries[k]].entrylist = Constituents(FeasibleCombos[k])

\* C6: in multi-element mode infeasible combinations never fail construction:
\* whatever the pattern of feasible and infeasible combinations, the
\* synthesizer returns without raising.
C6_SynthesizerNeverRaises ==
    (multielement /\ pc = "error") => err \in {"SingularSystemError", "InsufficientDataError"}

\* C7: whenever the working set yields fewer than 3 hull points, construction
\* fails with the insufficient-data error, with no other failure, and no
\* diagram is produced.
C7_FewPointsInsufficientData ==
    ( /\ pc \in {"done", "error"}
      /\ err \notin {"ConfigurationError", "SingularSystemError"}
      /\ WorkingSetSize < 3 )
    => (pc = "error" /\ err = "InsufficientDataError")

\* C8: an input with an entry whose phase_type is neither Solid nor Ion fails
\* with the configuration error at classification, before the composition
\* solver, the synthesizer or the projector has run, so that no entry is
\* scaled or corrected; with valid entries only, the working set is the
\* solids in input order followed by the ions in input order.
C8_ClassifierRejectsOrPartitions ==
    pc # "init" =>
      IF HasInvalidPhase
      THEN /\ pc = "error"
           /\ err = "ConfigurationError"
           /\ ~multielement
           /\ elt_comp = <<>>
           /\ Len(heap) = Len(entries)
           /\ all_entries = <<>>
           /\ qhull_entries = <<>>
           /\ \A id \in 1..Len(heap) :
                /\ heap[id].nscaled = 0
                /\ heap[id].ncorrected = 0
                /\ heap[id].correction = 0
      ELSE /\ err # "ConfigurationError"
           /\ unprocessed_entries =
                SelectSeq(entries, LAMBDA id : heap[id].phase_type = "Solid")
                \o SelectSeq(entries, LAMBDA id : heap[id].phase_type = "Ion")

\* C8 witness: multi-element input whose invalid entry comes behind a solid
\* and an ion; construction has ended with the configuration error.
C8_Witness ==
    /\ pc = "error"
    /\ err = "ConfigurationError"
    /\ comp_dict # <<>>
    /\ solid_entries # <<>>
    /\ ion_entries # <<>>
    /\ HasInvalidPhase

\* C9: every MultiEntry the synthesizer returns is tagged in the
\* entry-components mapping with the combination it was built from, also the
\* last-built one when the combinations enumerated after it were infeasible.
C9_TaggedWithOwnCombination ==
    Synthesized =>
      \A k \in 1..Len(all_entries) :
        /\ all_entries[k] \in DOMAIN entry_components_dict
        /\ Constituents(entry_components_dict[all_entries[k]])
             = heap[all_entries[k]].entrylist

\* C10: the projector processes each entry of the working set exactly once:
\* every object in qhull_entries was scaled once and had the term
\* -MU_H2O * nH2O + conc_term added to its correction once, and there is
\* exactly one hull point per working-set entry.
C10_ProjectedExactlyOnce ==
    Projected =>
      /\ Len(qhull_entries) = WorkingSetSize
      /\ NoDuplicates(qhull_entries)
      /\ \A i \in 1..Len(qhull_entries) :
           LET e == heap[qhull_entries[i]] IN
             /\ e.nscaled = 1
             /\ e.ncorrected = 1
             /\ e.correction = -MU_H2O * e.nH2O + e.conc_term

\* C10 restricted to single-element mode.
C10_SingleElementMode ==
    (Projected /\ ~multielement) =>
      /\ Len(qhull_entries) = WorkingSetSize
      /\ NoDuplicates(qhull_entries)
      /\ \A i \in 1..Len(qhull_entries) :
           LET e == heap[qhull_entries[i]] IN
             /\ e.nscaled = 1
             /\ e.ncorrected = 1
             /\ e.correction = -MU_H2O * e.nH2O + e.conc_term
====
